---- MODULE Spec2Model ----
(***************************************************************************)
(* Model of aruudy/poetry/meter.py: the tokenizer get_ameter, the two      *)
(* encoding converters a2e_meter / e2a_meter, the Bahr class (constructor, *)
(* get_value, test_property, to_dict, validate), the registry buhuur and   *)
(* the module-level queries get_bahr, _get_values and search_bahr.         *)
(*                                                                         *)
(* Python strings are modelled as sequences of one-character strings.      *)
(* Characters outside ASCII are written by their code point ("U+0637").    *)
(***************************************************************************)
EXTENDS Integers, Sequences, FiniteSets, TLC

\* ------------------------------------------------------------------------
\* Bounds
\* ------------------------------------------------------------------------
\* longest text handed to get_ameter
MaxText == 5
\* longest syllabic string handed to validate / search_bahr
MaxLen == 11

\* ------------------------------------------------------------------------
\* Strings
\* ------------------------------------------------------------------------
\* all sequences over S of length at most n
RECURSIVE SeqsUpTo(_, _)
SeqsUpTo(S, n) ==
    IF n = 0 THEN {<<>>}
    ELSE LET shorter == SeqsUpTo(S, n - 1)
         IN  shorter \cup {Append(s, c) : s \in {t \in shorter : Len(t) = n - 1}, c \in S}

\* s[i:] of Python, 0-based i with 0 <= i
DropFirst(s, i) == IF i >= Len(s) THEN <<>> ELSE SubSeq(s, i + 1, Len(s))

\* s[:-2] of Python
AllButLastTwo(s) == IF Len(s) <= 2 THEN <<>> ELSE SubSeq(s, 1, Len(s) - 2)

\* s[-2:] of Python
LastTwo(s) == IF Len(s) <= 2 THEN s ELSE SubSeq(s, Len(s) - 1, Len(s))

\* str.startswith
StartsWith(s, p) == Len(p) <= Len(s) /\ SubSeq(s, 1, Len(p)) = p

\* str.replace(old, new): leftmost, non-overlapping occurrences of a
\* non-empty old, scanning left to right
RECURSIVE Replace(_, _, _)
Replace(s, old, new) ==
    IF s = <<>> THEN <<>>
    ELSE IF StartsWith(s, old) THEN new \o Replace(DropFirst(s, Len(old)), old, new)
    ELSE <<Head(s)>> \o Replace(Tail(s), old, new)

\* the concatenation of a list of strings
RECURSIVE Concat(_)
Concat(ss) == IF ss = <<>> THEN <<>> ELSE Head(ss) \o Concat(Tail(ss))

\* ------------------------------------------------------------------------
\* Tokenizer and encoding converters
\* ------------------------------------------------------------------------
\* re_haraka: fatha, damma, kasra, maddah above
re_haraka == {"U+064E", "U+064F", "U+0650", "U+0653"}

\* the characters str.strip() removes that the model's texts contain
Whitespace == {" "}

\* the characters of the texts the model scans: two letters, a blank and
\* two of the recognised diacritics
TextChars == {"b", "l", " ", "U+064E", "U+0650"}

\* truth value of s.strip(): some character of s is not whitespace
StripTruthy(s) == \E k \in 1..Len(s) : s[k] \notin Whitespace

\* the loop body without "buf = buf[-2:]": the Peg segment is the whole buffer
LoopBody_keep_buf(st, c) ==
    LET buf1 == Append(st.buf, c)
    IN  IF c \in re_haraka
        THEN IF StripTruthy(AllButLastTwo(buf1))
             THEN [ameter |-> st.ameter \o <<"s", "w">>,
                   parts  |-> st.parts \o <<AllButLastTwo(buf1), buf1>>,
                   buf    |-> <<>>]
             ELSE [ameter |-> Append(st.ameter, "w"),
                   parts  |-> Append(st.parts, buf1),
                   buf    |-> <<>>]
        ELSE [ameter |-> st.ameter, parts |-> st.parts, buf |-> buf1]

\* one iteration of the loop of get_ameter on character c
LoopBody(st, c) ==
    LET buf1 == Append(st.buf, c)
    IN  IF c \in re_haraka
        THEN IF StripTruthy(AllButLastTwo(buf1))
             THEN [ameter |-> st.ameter \o <<"s", "w">>,
                   parts  |-> st.parts \o <<AllButLastTwo(buf1), LastTwo(buf1)>>,
                   buf    |-> <<>>]
             ELSE [ameter |-> Append(st.ameter, "w"),
                   parts  |-> Append(st.parts, buf1),
                   buf    |-> <<>>]
        ELSE [ameter |-> st.ameter, parts |-> st.parts, buf |-> buf1]

\* the code of get_ameter after the loop
LoopExit(st) ==
    IF StripTruthy(st.buf)
    THEN [ameter |-> Append(st.ameter, "s"), parts |-> Append(st.parts, st.buf), buf |-> st.buf]
    ELSE st

a2e_meter(ameter) == Replace(Replace(ameter, <<"w", "s">>, <<"-">>), <<"w">>, <<"u">>)

\* e2a_meter with the two replacement strings exchanged
e2a_meter_swapped(emeter) == Replace(Replace(emeter, <<"-">>, <<"w">>), <<"u">>, <<"w", "s">>)

e2a_meter(emeter) == Replace(Replace(emeter, <<"-">>, <<"w", "s">>), <<"u">>, <<"w">>)

\* ------------------------------------------------------------------------
\* Feet (aruudy/poetry/foot.py, described by section 4.3 of the specification)
\* ------------------------------------------------------------------------
L == "-"
U == "u"

\* the syllabic shape of each form of each foot class: the class name is
\* the binary shape of the unmodified form (SALIM), and every other form is
\* that shape after the named modification.  TADIIL lengthens the last
\* syllable of the unmodified form, so its shape extends the SALIM shape.
Forms ==
    [WWSWS   |-> [SALIM |-> <<U, L, L>>, QABDH |-> <<U, L, U>>],
     WWSWSWS |-> [SALIM |-> <<U, L, L, L>>, QABDH |-> <<U, L, U, L>>, KAFF |-> <<U, L, L, U>>],
     WSWWS   |-> [SALIM |-> <<L, U, L>>, KHABN |-> <<U, U, L>>, QATE |-> <<L, L>>],
     WSWWSWS |-> [SALIM |-> <<L, U, L, L>>, KHABN |-> <<U, U, L, L>>, KAFF |-> <<L, U, L, U>>,
                  SHAKL |-> <<U, U, L, U>>],
     WSWSWWS |-> [SALIM |-> <<L, L, U, L>>, KHABN |-> <<U, L, U, L>>, TAI |-> <<L, U, U, L>>,
                  KHABL |-> <<U, U, U, L>>, QATE |-> <<L, L, L>>, TADIIL |-> <<L, L, U, L, L>>],
     WWSWWWS |-> [SALIM |-> <<U, L, U, U, L>>, ASAB |-> <<U, L, L, L>>],
     WWWSWWS |-> [SALIM |-> <<U, U, L, U, L>>, IDHMAR |-> <<L, L, U, L>>],
     WSWSWSW |-> [SALIM |-> <<L, L, L, U>>, KHABN |-> <<U, L, L, U>>, TAI |-> <<L, U, L, U>>]]

\* Tafiila.process: the first allowed form, in the order the caller gave,
\* whose shape is a prefix of text_emeter is cut off; with no such form the
\* match is empty and the text is returned as it came
RECURSIVE process_from(_, _, _)
process_from(foot, k, text_emeter) ==
    IF k > Len(foot.var) THEN [text_foot |-> <<>>, text_emeter |-> text_emeter]
    ELSE LET shape == Forms[foot.cls][foot.var[k]]
         IN  IF StartsWith(text_emeter, shape)
             THEN [text_foot |-> shape, text_emeter |-> DropFirst(text_emeter, Len(shape))]
             ELSE process_from(foot, k + 1, text_emeter)

process(foot, text_emeter) == process_from(foot, 1, text_emeter)

\* Tafiila.get_meter: the first allowed form when used, the unmodified
\* form otherwise
get_meter(foot, used) ==
    LET z == IF used THEN foot.var[1] ELSE "SALIM"
    IN  [type |-> z, mnemonic |-> <<foot.cls, z>>, emeter |-> Forms[foot.cls][z]]

\* ------------------------------------------------------------------------
\* The catalogue of meters
\* ------------------------------------------------------------------------
\* the information dictionary of the Bahr object tawiil
tawiil ==
    [id |-> "tawiil",
     name |-> [arabic |-> <<"U+0637", "U+0648", "U+064A", "U+0644">>,
              english |-> <<"l", "o", "n", "g">>,
              trans |-> <<"U+1E6D", "a", "w", "U+012B", "l">>],
     meter |-> <<
        <<[cls |-> "WWSWS", var |-> <<"SALIM", "QABDH">>],
          [cls |-> "WWSWSWS", var |-> <<"SALIM", "QABDH", "KAFF">>],
          [cls |-> "WWSWS", var |-> <<"SALIM", "QABDH">>],
          [cls |-> "WWSWSWS", var |-> <<"QABDH">>]>>>>,
     key |-> "key of tawiil"]

\* the information dictionary of the Bahr object madiid
madiid ==
    [id |-> "madiid",
     name |-> [arabic |-> <<"U+0645", "U+062F", "U+064A", "U+062F">>,
              english |-> <<"p", "r", "o", "t", "r", "a", "c", "t", "e", "d">>,
              trans |-> <<"m", "a", "d", "U+012B", "d">>],
     meter |-> <<
        <<[cls |-> "WSWWSWS", var |-> <<"SALIM", "KHABN">>],
          [cls |-> "WSWWS", var |-> <<"SALIM", "KHABN">>],
          [cls |-> "WSWWSWS", var |-> <<"SALIM", "KHABN">>]>>>>,
     key |-> "key of madiid"]

\* the information dictionary of the Bahr object basiit
basiit ==
    [id |-> "basiit",
     name |-> [arabic |-> <<"U+0628", "U+0633", "U+064A", "U+0637">>,
              english |-> <<"s", "p", "r", "e", "a", "d", "-", "o", "u", "t">>,
              trans |-> <<"b", "a", "s", "U+012B", "U+1E6D">>],
     meter |-> <<
        <<[cls |-> "WSWSWWS", var |-> <<"SALIM", "KHABN", "TAI">>],
          [cls |-> "WSWWS", var |-> <<"SALIM", "KHABN">>],
          [cls |-> "WSWSWWS", var |-> <<"SALIM", "KHABN", "TAI">>],
          [cls |-> "WSWWS", var |-> <<"KHABN", "QATE">>]>>,
        <<[cls |-> "WSWSWWS", var |-> <<"SALIM", "KHABN", "TAI">>],
          [cls |-> "WSWWS", var |-> <<"SALIM", "KHABN">>],
          [cls |-> "WSWSWWS", var |-> <<"SALIM", "KHABN", "TAI", "QATE", "TADIIL">>]>>>>,
     key |-> "key of basiit"]

\* the information dictionary of the Bahr object wafir
wafir ==
    [id |-> "wafir",
     name |-> [arabic |-> <<"U+0648", "U+0627", "U+0641", "U+0631">>,
              english |-> <<"a", "b", "u", "n", "d", "a", "n", "t">>,
              trans |-> <<"w", "U+0101", "f", "i", "r">>],
     meter |-> <<
        <<[cls |-> "WWSWWWS", var |-> <<"SALIM", "ASAB">>],
          [cls |-> "WWSWWWS", var |-> <<"SALIM", "ASAB">>],
          [cls |-> "WWSWS", var |-> <<"SALIM">>]>>>>,
     key |-> "key of wafir"]

\* the information dictionary of the Bahr object kaamil
kaamil ==
    [id |-> "kaamil",
     name |-> [arabic |-> <<"U+0643", "U+0627", "U+0645", "U+0644">>,
              english |-> <<"c", "o", "m", "p", "l", "e", "t", "e">>,
              trans |-> <<"k", "U+0101", "m", "i", "l">>],
     meter |-> <<
        <<[cls |-> "WWWSWWS", var |-> <<"SALIM", "IDHMAR">>],
          [cls |-> "WWWSWWS", var |-> <<"SALIM", "IDHMAR">>],
          [cls |-> "WWWSWWS", var |-> <<"SALIM", "IDHMAR">>]>>,
        <<[cls |-> "WWWSWWS", var |-> <<"SALIM", "IDHMAR">>],
          [cls |-> "WWWSWWS", var |-> <<"SALIM", "IDHMAR">>]>>>>,
     key |-> "key of kaamil"]

\* the information dictionary of the Bahr object hazj
hazj ==
    [id |-> "hazj",
     name |-> [arabic |-> <<"U+0647", "U+0632", "U+062C">>,
              english |-> <<"t", "r", "i", "l", "l", "i", "n", "g">>,
              trans |-> <<"h", "a", "z", "a", "j">>],
     meter |-> <<
        <<[cls |-> "WWSWSWS", var |-> <<"SALIM", "KAFF">>],
          [cls |-> "WWSWSWS", var |-> <<"SALIM", "KAFF">>]>>>>,
     key |-> "key of hazj"]

\* the information dictionary of the Bahr object rajz
rajz ==
    [id |-> "rajz",
     name |-> [arabic |-> <<"U+0631", "U+062C", "U+0632">>,
              english |-> <<"t", "r", "e", "m", "b", "l", "i", "n", "g">>,
              trans |-> <<"r", "a", "j", "a", "z">>],
     meter |-> <<
        <<[cls |-> "WSWSWWS", var |-> <<"SALIM", "KHABN">>],
          [cls |-> "WSWSWWS", var |-> <<"SALIM", "KHABN">>],
          [cls |-> "WSWSWWS", var |-> <<"SALIM", "KHABN">>]>>>>,
     key |-> "key of rajz"]

\* the information dictionary of the Bahr object raml
raml ==
    [id |-> "raml",
     name |-> [arabic |-> <<"U+0631", "U+0645", "U+0644">>,
              english |-> <<"t", "r", "o", "t", "t", "i", "n", "g">>,
              trans |-> <<"r", "a", "m", "a", "l">>],
     meter |-> <<
        <<[cls |-> "WSWWSWS", var |-> <<"SALIM", "KHABN">>],
          [cls |-> "WSWWSWS", var |-> <<"SALIM", "KHABN">>],
          [cls |-> "WSWWSWS", var |-> <<"SALIM", "KHABN">>]>>>>,
     key |-> "key of raml"]

\* the information dictionary of the Bahr object sariie
sariie ==
    [id |-> "sariie",
     name |-> [arabic |-> <<"U+0633", "U+0631", "U+064A", "U+0639">>,
              english |-> <<"s", "w", "i", "f", "t">>,
              trans |-> <<"s", "a", "r", "U+012B", "U+02BF">>],
     meter |-> <<
        <<[cls |-> "WSWSWWS", var |-> <<"SALIM", "KHABN", "TAI", "KHABL">>],
          [cls |-> "WSWSWWS", var |-> <<"SALIM", "KHABN", "TAI", "KHABL">>],
          [cls |-> "WSWWS", var |-> <<"SALIM">>]>>>>,
     key |-> "key of sariie"]

\* the information dictionary of the Bahr object munsarih
munsarih ==
    [id |-> "munsarih",
     name |-> [arabic |-> <<"U+0645", "U+0646", "U+0633", "U+0631", "U+062D">>,
              english |-> <<"q", "u", "i", "c", "k", "-", "p", "a", "c", "e", "d">>,
              trans |-> <<"m", "u", "n", "s", "a", "r", "i", "U+0127">>],
     meter |-> <<
        <<[cls |-> "WSWSWWS", var |-> <<"SALIM", "KHABN">>],
          [cls |-> "WSWSWSW", var |-> <<"SALIM", "TAI">>],
          [cls |-> "WSWSWWS", var |-> <<"TAI">>]>>>>,
     key |-> "key of munsarih"]

\* the information dictionary of the Bahr object khafiif
khafiif ==
    [id |-> "khafiif",
     name |-> [arabic |-> <<"U+062E", "U+0641", "U+064A", "U+0641">>,
              english |-> <<"l", "i", "g", "h", "t">>,
              trans |-> <<"k", "h", "a", "f", "U+012B", "f">>],
     meter |-> <<
        <<[cls |-> "WSWWSWS", var |-> <<"SALIM", "KHABN", "KAFF">>],
          [cls |-> "WSWSWWS", var |-> <<"SALIM">>],
          [cls |-> "WSWWSWS", var |-> <<"SALIM", "KHABN", "SHAKL">>]>>>>,
     key |-> "key of khafiif"]

\* the information dictionary of the Bahr object mudharie
mudharie ==
    [id |-> "mudharie",
     name |-> [arabic |-> <<"U+0645", "U+0636", "U+0627", "U+0631", "U+0639">>,
              english |-> <<"s", "i", "m", "i", "l", "a", "r">>,
              trans |-> <<"m", "u", "U+1E0D", "U+0101", "r", "i", "U+02BF">>],
     meter |-> <<
        <<[cls |-> "WWSWSWS", var |-> <<"SALIM", "QABDH", "KAFF">>],
          [cls |-> "WSWWSWS", var |-> <<"SALIM">>]>>>>,
     key |-> "key of mudharie"]

\* the information dictionary of the Bahr object muqtadhib
muqtadhib ==
    [id |-> "muqtadhib",
     name |-> [arabic |-> <<"U+0645", "U+0642", "U+062A", "U+0636", "U+0628">>,
              english |-> <<"u", "n", "t", "r", "a", "i", "n", "e", "d">>,
              trans |-> <<"m", "u", "q", "t", "a", "U+1E0D", "a", "b">>],
     meter |-> <<
        <<[cls |-> "WSWSWSW", var |-> <<"SALIM", "KHABN">>],
          [cls |-> "WSWSWWS", var |-> <<"TAI">>]>>>>,
     key |-> "key of muqtadhib"]

\* the information dictionary of the Bahr object mujdath
mujdath ==
    [id |-> "mujdath",
     name |-> [arabic |-> <<"U+0645", "U+062C", "U+062A", "U+062B">>,
              english |-> <<"c", "u", "t", "-", "o", "f", "f">>,
              trans |-> <<"m", "u", "j", "t", "a", "t", "h", "t", "h">>],
     meter |-> <<
        <<[cls |-> "WSWSWWS", var |-> <<"SALIM", "KHABN">>],
          [cls |-> "WSWWSWS", var |-> <<"SALIM", "KHABN">>]>>>>,
     key |-> "key of mujdath"]

\* the information dictionary of the Bahr object mutaqaarib
mutaqaarib ==
    [id |-> "mutaqaarib",
     name |-> [arabic |-> <<"U+0645", "U+062A", "U+0642", "U+0627", "U+0631", "U+0628">>,
              english |-> <<"n", "e", "a", "r", "i", "n", "g">>,
              trans |-> <<"m", "u", "t", "a", "q", "U+0101", "r", "i", "b">>],
     meter |-> <<
        <<[cls |-> "WWSWS", var |-> <<"SALIM", "QABDH">>],
          [cls |-> "WWSWS", var |-> <<"SALIM", "QABDH">>],
          [cls |-> "WWSWS", var |-> <<"SALIM", "QABDH">>],
          [cls |-> "WWSWS", var |-> <<"SALIM", "QABDH">>]>>>>,
     key |-> "key of mutaqaarib"]

\* the information dictionary of the Bahr object mutadaarik
mutadaarik ==
    [id |-> "mutadaarik",
     name |-> [arabic |-> <<"U+0645", "U+062A", "U+062F", "U+0627", "U+0631", "U+0643">>,
              english |-> <<"o", "v", "e", "r", "t", "a", "k", "i", "n", "g">>,
              trans |-> <<"m", "u", "t", "a", "d", "U+0101", "r", "i", "k">>],
     meter |-> <<
        <<[cls |-> "WSWWS", var |-> <<"SALIM", "KHABN", "QATE">>],
          [cls |-> "WSWWS", var |-> <<"SALIM", "KHABN", "QATE">>],
          [cls |-> "WSWWS", var |-> <<"SALIM", "KHABN", "QATE">>],
          [cls |-> "WSWWS", var |-> <<"SALIM", "KHABN", "QATE">>]>>>>,
     key |-> "key of mutadaarik"]

\* the Bahr constructions of the module, in the order they are executed
Catalogue ==
    <<tawiil, madiid, basiit, wafir, kaamil, hazj,
      rajz, raml, sariie, munsarih, khafiif, mudharie,
      muqtadhib, mujdath, mutaqaarib, mutadaarik>>

CatalogueSize == Len(Catalogue)

\* ------------------------------------------------------------------------
\* Python values
\* ------------------------------------------------------------------------
None == "<None>"

PyStr(v) == [t |-> "str", v |-> v]
PyDict(v) == [t |-> "dict", v |-> v]
PyList(v) == [t |-> "list", v |-> v]

\* the value None and a list, as the variable res of validate holds them
NoneRes == [isNone |-> TRUE, list |-> <<>>]
ListRes(l) == [isNone |-> FALSE, list |-> l]

\* truth value of None or a list
Truthy(res) == ~res.isNone /\ res.list /= <<>>

Returns(v) == [kind |-> "return", value |-> v]
Raises(exc, arg) == [kind |-> "raise", exc |-> exc, arg |-> arg]

Range(s) == {s[k] : k \in 1..Len(s)}

\* ------------------------------------------------------------------------
\* Bahr
\* ------------------------------------------------------------------------
extract_meter(feet, used) ==
    LET RECURSIVE join(_, _)
        join(k, field) ==
            IF k > Len(feet) THEN <<>>
            ELSE (IF k = 1 THEN <<>> ELSE <<" ">>)
                 \o (IF field = "emeter" THEN get_meter(feet[k], used).emeter
                     ELSE <<get_meter(feet[k], used)[field]>>)
                 \o join(k + 1, field)
    IN  [type |-> join(1, "type"), mnemonic |-> join(1, "mnemonic"), emeter |-> join(1, "emeter")]

\* the scansion dictionary the constructor stores: extract_meter plus "ameter"
scansion(feet, used) ==
    LET res == extract_meter(feet, used)
    IN  [type |-> res.type, mnemonic |-> res.mnemonic, emeter |-> res.emeter,
         ameter |-> e2a_meter(res.emeter)]

\* Bahr.__init__: the object built from info
NewBahr(info) ==
    [keys  |-> <<"name", "meter", "key", "used_scansion", "std_scansion">>,
     attrs |-> [name |-> PyDict(info.name),
                meter |-> PyList(info.meter),
                key |-> PyStr(info.key),
                used_scansion |-> PyDict(scansion(info.meter[1], TRUE)),
                std_scansion |-> PyDict(scansion(info.meter[1], FALSE))]]

\* the object registers itself at the head of the registry
Register_front(registry, id) == <<id>> \o registry

\* Bahr.__init__: the registry after the object registered itself
Register(registry, id) == Append(registry, id)

\* Bahr.get_value
get_value(self, key, key2) ==
    IF key \notin Range(self.keys) THEN Raises("BahrError", key)
    ELSE LET res == self.attrs[key]
         IN  IF key2 /= None /\ key2 /= ""
             THEN IF res.t /= "dict" THEN Raises("TypeError", key2)
                  ELSE IF key2 \notin DOMAIN res.v THEN Raises("KeyError", key2)
                  ELSE Returns(PyStr(res.v[key2]))
             ELSE Returns(res)

\* Bahr.test_property
test_property(self, key, value, key2) ==
    LET val == get_value(self, key, key2)
    IN  IF val.kind = "raise" THEN val
        ELSE Returns(val.value.t = "str" /\ val.value.v = value)

\* Bahr.to_dict: the dictionary returned and the object after the call
to_dict(self) ==
    LET dic == [k \in Range(self.keys) |-> self.attrs[k]]
    IN  [dic |-> [k \in DOMAIN dic \ {"meter"} |-> dic[k]], self |-> self]

\* one step of Bahr.validate on the list of variants meter: the frame f
\* holds the position in the two loops (variant vi, foot fi), the list res
\* and the rest of the text; the step processes one foot, or leaves the
\* loop over the feet of a variant.  st is "ret" when validate returned.
\* (AfterVariant_no_reset: "text_emeter = emeter" left out of the loop over
\* the variants, so that the next variant goes on where the last one stopped.)
AfterVariant_no_reset(meter, emeter, f, res) ==
    IF Truthy(res) THEN [st |-> "ret", value |-> res]
    ELSE IF f.vi < Len(meter)
    THEN [st |-> "run", vi |-> f.vi + 1, fi |-> 1, res |-> ListRes(<<>>),
          text_emeter |-> f.text_emeter]
    ELSE [st |-> "ret", value |-> NoneRes]

AfterVariant(meter, emeter, f, res) ==
    IF Truthy(res) THEN [st |-> "ret", value |-> res]
    ELSE IF f.vi < Len(meter)
    THEN [st |-> "run", vi |-> f.vi + 1, fi |-> 1, res |-> ListRes(<<>>), text_emeter |-> emeter]
    ELSE [st |-> "ret", value |-> NoneRes]

validate_step(meter, emeter, f) ==
    LET var == meter[f.vi]
    IN  IF f.fi <= Len(var)
        THEN LET p == process(var[f.fi], f.text_emeter)
             IN  IF p.text_foot = <<>>
                 THEN AfterVariant(meter, emeter, f, NoneRes)
                 ELSE [st |-> "run", vi |-> f.vi, fi |-> f.fi + 1,
                       res |-> ListRes(Append(f.res.list, p.text_foot)),
                       text_emeter |-> p.text_emeter]
        ELSE AfterVariant(meter, emeter, f, f.res)

\* the frame of validate on entry
validate_entry(emeter) ==
    [st |-> "run", vi |-> 1, fi |-> 1, res |-> ListRes(<<>>), text_emeter |-> emeter]

\* Bahr.validate run to its return
RECURSIVE validate_run(_, _, _)
validate_run(meter, emeter, f) ==
    IF f.st = "ret" THEN f.value ELSE validate_run(meter, emeter, validate_step(meter, emeter, f))

validate(self, emeter) == validate_run(self.attrs.meter.v, emeter, validate_entry(emeter))

\* name_type: re.match("^[a-zA-Z]", name)
AsciiLetters ==
    {"a", "b", "c", "d", "e", "f", "g", "h", "i", "j", "k", "l", "m",
     "n", "o", "p", "q", "r", "s", "t", "u", "v", "w", "x", "y", "z",
     "A", "B", "C", "D", "E", "F", "G", "H", "I", "J", "K", "L", "M",
     "N", "O", "P", "Q", "R", "S", "T", "U", "V", "W", "X", "Y", "Z"}

name_type(name) ==
    IF name /= <<>> /\ name[1] \in AsciiLetters THEN "english" ELSE "arabic"

\* get_bahr: the loop over the registry from position k
RECURSIVE get_bahr_from(_, _, _, _, _)
get_bahr_from(registry, heap, k, name, dic) ==
    IF k > Len(registry) THEN Returns(None)
    ELSE LET b == heap[registry[k]]
             t == test_property(b, "name", name, name_type(name))
         IN  IF t.kind = "raise" THEN t
             ELSE IF t.value
             THEN IF dic THEN Returns(PyDict(to_dict(b).dic)) ELSE Returns(registry[k])
             ELSE get_bahr_from(registry, heap, k + 1, name, dic)

get_bahr(registry, heap, name, dic) == get_bahr_from(registry, heap, 1, name, dic)

\* _get_values: the loop over the registry from position k
RECURSIVE get_values_from(_, _, _, _, _, _)
get_values_from(registry, heap, k, attr1, attr2, values) ==
    IF k > Len(registry) THEN Returns(values)
    ELSE LET v == get_value(heap[registry[k]], attr1, attr2)
         IN  IF v.kind = "raise" THEN v
             ELSE get_values_from(registry, heap, k + 1, attr1, attr2, Append(values, v.value))

get_values(registry, heap, attr1, attr2) == get_values_from(registry, heap, 1, attr1, attr2, <<>>)

\* the position in the registry search_bahr starts at, and the one it
\* visits after position k
search_first == 1
\* "return None, None" inside the loop: no template after the first is visited
search_next_stop(k) == 0

search_next(k) == k + 1

\* ------------------------------------------------------------------------
\* State
\* ------------------------------------------------------------------------
VARIABLES
    buhuur,     \* the registry: the identities of the Bahr objects, in order
    objs,       \* the Bahr objects: identity -> [keys, attrs]
    pc,         \* "load" while the module body runs, then "idle", the name
                \* of the running call, or "done"
    op,         \* the call that runs or has just returned, with its arguments
    fr,         \* the frame of the running validate (for search_bahr also bi,
                \* the position in the registry)
    ret,        \* what the finished call returned or raised
    text,       \* the text get_ameter scans
    pos,        \* how many characters of text the loop has read
    scan,       \* ameter, parts and buf of get_ameter
    tpc,        \* "scan", "scanned", "a2e", "e2a"
    emeter_out, \* a2e_meter of the tokenizer's ameter
    ameter_back \* e2a_meter of emeter_out

vars == <<buhuur, objs, pc, op, fr, ret, text, pos, scan, tpc, emeter_out, ameter_back>>
regvars == <<buhuur, objs, pc, op, fr, ret>>
tokvars == <<text, pos, scan, tpc, emeter_out, ameter_back>>

NoOp == [name |-> "none"]
NoFrame == [st |-> "none"]
NoRet == [kind |-> "none"]

\* the syllabic inputs of validate and search_bahr
Emeters == SeqsUpTo({L, U}, MaxLen)

\* the texts of get_ameter
Texts == SeqsUpTo(TextChars, MaxText)

\* the names asked of get_bahr: every name of the catalogue, and names of
\* no meter
CatalogueNames ==
    {Catalogue[i].name[l] : i \in 1..CatalogueSize, l \in {"arabic", "english", "trans"}}
Names == CatalogueNames \cup {<<>>, <<"f", "r", "e", "e">>, <<"U+0634", "U+0639", "U+0631">>}

\* the attribute names asked of get_value
Keys == {"name", "meter", "key", "used_scansion", "std_scansion", "names", "arabic"}
Keys2 == {None, "arabic", "english", "trans", "french", "emeter"}

\* ------------------------------------------------------------------------
\* The registry and its queries
\* ------------------------------------------------------------------------
InitReg ==
    /\ buhuur = <<>>
    /\ objs = <<>>
    /\ pc = "load"
    /\ op = NoOp
    /\ fr = NoFrame
    /\ ret = NoRet

TokIdle ==
    /\ text = <<>>
    /\ pos = 0
    /\ scan = [ameter |-> <<>>, parts |-> <<>>, buf |-> <<>>]
    /\ tpc = "off"
    /\ emeter_out = <<>>
    /\ ameter_back = <<>>

Init == InitReg /\ TokIdle

\* the next statement X = Bahr({...}) of the module body
Construct ==
    /\ pc = "load"
    /\ LET info == Catalogue[Len(buhuur) + 1]
       IN  /\ objs' = (info.id :> NewBahr(info)) @@ objs
           /\ buhuur' = Register(buhuur, info.id)
    /\ pc' = IF Len(buhuur) + 1 = CatalogueSize THEN "idle" ELSE "load"
    /\ UNCHANGED <<op, fr, ret>>
    /\ UNCHANGED tokvars

\* b.validate(emeter) is called
CallValidate ==
    /\ pc = "idle"
    /\ \E b \in Range(buhuur), emeter \in Emeters :
           /\ pc' = "validate"
           /\ op' = [name |-> "validate", b |-> b, emeter |-> emeter]
           /\ fr' = validate_entry(emeter)
           /\ UNCHANGED <<buhuur, objs, ret>>
           /\ UNCHANGED tokvars

\* the running validate processes one foot
ValidateStep ==
    /\ pc = "validate"
    /\ LET n == validate_step(objs[op.b].attrs.meter.v, op.emeter, fr)
       IN  IF n.st = "ret"
           THEN /\ ret' = Returns(n.value)
                /\ pc' = "done"
                /\ fr' = NoFrame
           ELSE /\ fr' = n
                /\ UNCHANGED <<pc, ret>>
    /\ UNCHANGED <<buhuur, objs, op>>
    /\ UNCHANGED tokvars

\* search_bahr(emeter) is called
CallSearch ==
    /\ pc = "idle"
    /\ \E emeter \in Emeters :
           /\ op' = [name |-> "search_bahr", emeter |-> emeter]
           /\ IF buhuur = <<>>
              THEN /\ pc' = "done"
                   /\ ret' = Returns([b |-> None, res |-> NoneRes])
                   /\ UNCHANGED fr
              ELSE /\ pc' = "search_bahr"
                   /\ fr' = [validate_entry(emeter) EXCEPT !.st = "run"] @@ [bi |-> search_first]
                   /\ UNCHANGED ret
           /\ UNCHANGED <<buhuur, objs>>
           /\ UNCHANGED tokvars

\* search_bahr: the validate of the template at position bi processes one
\* foot; when it returns, search_bahr returns or goes on to the next one
SearchStep ==
    /\ pc = "search_bahr"
    /\ LET b == buhuur[fr.bi]
           n == validate_step(objs[b].attrs.meter.v, op.emeter, fr)
       IN  IF n.st = "run"
           THEN /\ fr' = n @@ [bi |-> fr.bi]
                /\ UNCHANGED <<pc, ret>>
           ELSE IF Truthy(n.value)
           THEN /\ ret' = Returns([b |-> b, res |-> n.value])
                /\ pc' = "done"
                /\ fr' = NoFrame
           ELSE IF search_next(fr.bi) \in 1..Len(buhuur)
           THEN /\ fr' = validate_entry(op.emeter) @@ [bi |-> search_next(fr.bi)]
                /\ UNCHANGED <<pc, ret>>
           ELSE /\ ret' = Returns([b |-> None, res |-> NoneRes])
                /\ pc' = "done"
                /\ fr' = NoFrame
    /\ UNCHANGED <<buhuur, objs, op>>
    /\ UNCHANGED tokvars

\* get_bahr(name, dic)
GetBahr ==
    /\ pc = "idle"
    /\ \E name \in Names, dic \in BOOLEAN :
           /\ op' = [name |-> "get_bahr", arg |-> name, dic |-> dic]
           /\ ret' = get_bahr(buhuur, objs, name, dic)
           /\ pc' = "done"
           /\ UNCHANGED <<buhuur, objs, fr>>
           /\ UNCHANGED tokvars

\* b.get_value(key, key2)
GetValue ==
    /\ pc = "idle"
    /\ \E b \in Range(buhuur), key \in Keys, key2 \in Keys2 :
           /\ op' = [name |-> "get_value", b |-> b, key |-> key, key2 |-> key2]
           /\ ret' = get_value(objs[b], key, key2)
           /\ pc' = "done"
           /\ UNCHANGED <<buhuur, objs, fr>>
           /\ UNCHANGED tokvars

\* b.to_dict()
ToDict ==
    /\ pc = "idle"
    /\ \E b \in Range(buhuur) :
           /\ op' = [name |-> "to_dict", b |-> b]
           /\ LET r == to_dict(objs[b])
              IN  /\ ret' = Returns(PyDict(r.dic))
                  /\ objs' = [objs EXCEPT ![b] = r.self]
           /\ pc' = "done"
           /\ UNCHANGED <<buhuur, fr>>
           /\ UNCHANGED tokvars

\* get_names(), arabic_names(), english_names(), trans_names()
GetNames ==
    /\ pc = "idle"
    /\ \E attr2 \in {None, "arabic", "english", "trans"} :
           /\ op' = [name |-> "get_names", attr2 |-> attr2]
           /\ ret' = get_values(buhuur, objs, "name", attr2)
           /\ pc' = "done"
           /\ UNCHANGED <<buhuur, objs, fr>>
           /\ UNCHANGED tokvars

\* the caller takes the result
Return ==
    /\ pc = "done"
    /\ pc' = "idle"
    /\ op' = NoOp
    /\ ret' = NoRet
    /\ UNCHANGED <<buhuur, objs, fr>>
    /\ UNCHANGED tokvars

Next ==
    \/ Construct
    \/ CallValidate
    \/ ValidateStep
    \/ CallSearch
    \/ SearchStep
    \/ GetBahr
    \/ GetValue
    \/ ToDict
    \/ GetNames
    \/ Return

Spec == Init /\ [][Next]_vars

\* ------------------------------------------------------------------------
\* The tokenizer followed by the two converters
\* ------------------------------------------------------------------------
RegIdle ==
    /\ buhuur = <<>>
    /\ objs = <<>>
    /\ pc = "off"
    /\ op = NoOp
    /\ fr = NoFrame
    /\ ret = NoRet

\* get_ameter(text) is called
InitTok ==
    /\ text \in Texts
    /\ pos = 0
    /\ scan = [ameter |-> <<>>, parts |-> <<>>, buf |-> <<>>]
    /\ tpc = "scan"
    /\ emeter_out = <<>>
    /\ ameter_back = <<>>
    /\ RegIdle

\* one iteration of "for c in text"
ReadChar ==
    /\ tpc = "scan"
    /\ pos < Len(text)
    /\ scan' = LoopBody(scan, text[pos + 1])
    /\ pos' = pos + 1
    /\ UNCHANGED <<text, tpc, emeter_out, ameter_back>>
    /\ UNCHANGED regvars

\* the loop is over: the rest of the buffer, and the return
EndScan ==
    /\ tpc = "scan"
    /\ pos = Len(text)
    /\ scan' = LoopExit(scan)
    /\ tpc' = "scanned"
    /\ UNCHANGED <<text, pos, emeter_out, ameter_back>>
    /\ UNCHANGED regvars

\* a2e_meter on the ameter get_ameter returned
A2E ==
    /\ tpc = "scanned"
    /\ emeter_out' = a2e_meter(scan.ameter)
    /\ tpc' = "a2e"
    /\ UNCHANGED <<text, pos, scan, ameter_back>>
    /\ UNCHANGED regvars

\* e2a_meter on the result of a2e_meter
E2A ==
    /\ tpc = "a2e"
    /\ ameter_back' = e2a_meter(emeter_out)
    /\ tpc' = "e2a"
    /\ UNCHANGED <<text, pos, scan, emeter_out>>
    /\ UNCHANGED regvars

NextTok ==
    \/ ReadChar
    \/ EndScan
    \/ A2E
    \/ E2A

SpecTok == InitTok /\ [][NextTok]_vars

\* ------------------------------------------------------------------------
\* Properties
\* ------------------------------------------------------------------------
Syllabic == {L, U}

\* out is text with some of its whitespace characters deleted, and nothing
\* else deleted, added or moved
RECURSIVE DropsOnlyWhitespace(_, _)
DropsOnlyWhitespace(out, txt) ==
    IF txt = <<>> THEN out = <<>>
    ELSE \/ out /= <<>> /\ Head(out) = Head(txt) /\ DropsOnlyWhitespace(Tail(out), Tail(txt))
         \/ Head(txt) \in Whitespace /\ DropsOnlyWhitespace(out, Tail(txt))

\* the feet of var from foot k on, matched one after the other against txt:
\* the list of the matched shapes, or None when a foot does not match
RECURSIVE VariantBreakdown(_, _, _)
VariantBreakdown(var, k, txt) ==
    IF k > Len(var) THEN ListRes(<<>>)
    ELSE LET p == process(var[k], txt)
         IN  IF p.text_foot = <<>> THEN NoneRes
             ELSE LET r == VariantBreakdown(var, k + 1, p.text_emeter)
                  IN  IF r.isNone THEN NoneRes ELSE ListRes(<<p.text_foot>> \o r.list)

\* the variants of meter whose feet all match emeter, by position
Succeeding(meter, emeter) ==
    {v \in 1..Len(meter) : Truthy(VariantBreakdown(meter[v], 1, emeter))}

Min(S) == CHOOSE x \in S : \A y \in S : x <= y

\* what validate returns for template i of the catalogue, and the templates
\* of the catalogue that validate emeter, by position
Validates(i, emeter) == validate_run(Catalogue[i].meter, emeter, validate_entry(emeter))

Validating(emeter) == {i \in 1..CatalogueSize : Truthy(Validates(i, emeter))}

ValidateDone == pc = "done" /\ op.name = "validate"
SearchDone == pc = "done" /\ op.name = "search_bahr"

\* C1: a result of Bahr.validate that is not None is a list of shapes whose
\* concatenation is the whole input, with nothing left over
C1_FullConsumption ==
    (ValidateDone /\ ~ret.value.isNone) => Concat(ret.value.list) = op.emeter

\* C2: search_bahr returns the first template, in registration order, whose
\* validate succeeds on the input, with that template's breakdown, and
\* (None, None) when there is none; the result depends on the input alone,
\* whatever was called before
C2_FirstRegisteredWins ==
    SearchDone =>
        LET ok == Validating(op.emeter)
        IN  /\ ret.kind = "return"
            /\ IF ok = {}
               THEN ret.value = [b |-> None, res |-> NoneRes]
               ELSE /\ ret.value.b = Catalogue[Min(ok)].id
                    /\ ret.value.b = buhuur[Min(ok)]
                    /\ ret.value.res = Validates(Min(ok), op.emeter)

\* a search that two templates of the registry validate has returned the
\* earlier one
C2_Witness ==
    /\ SearchDone
    /\ Cardinality(Validating(op.emeter)) >= 2
    /\ ret.value.b = buhuur[Min(Validating(op.emeter))]

\* C3: e2a_meter(a2e_meter(s)) = s for the ameter s that get_ameter returned
C3_RoundTrip == tpc = "e2a" => ameter_back = scan.ameter

\* the round trip of an ameter that begins and ends with a Cord
C3_Witness ==
    /\ tpc = "e2a"
    /\ Len(scan.ameter) >= 3
    /\ scan.ameter[1] = "s"
    /\ scan.ameter[Len(scan.ameter)] = "s"
    /\ ameter_back = scan.ameter

\* C4: the segments get_ameter returns, concatenated in order, are the text
\* with only whitespace characters dropped, and there is one segment for
\* each symbol of the ameter
C4_SegmentReconstruction ==
    tpc \in {"scanned", "a2e", "e2a"} =>
        /\ DropsOnlyWhitespace(Concat(scan.parts), text)
        /\ Len(scan.parts) = Len(scan.ameter)

\* a scan that dropped whitespace and emitted a Cord and a Peg
C4_Witness ==
    /\ tpc = "scanned"
    /\ {"s", "w"} \subseteq Range(scan.ameter)
    /\ Len(scan.parts) >= 2
    /\ Concat(scan.parts) /= text
    /\ DropsOnlyWhitespace(Concat(scan.parts), text)

\* C5: get_bahr(n, dic=False) returns the first registered template one of
\* whose three names (English, Arabic, transliterated) is n, and None when n
\* is a name of no template
C5_LookupByAnyName ==
    (pc = "done" /\ op.name = "get_bahr" /\ ~op.dic) =>
        LET hits == {i \in 1..Len(buhuur) :
                        \E l \in {"english", "arabic", "trans"} :
                            objs[buhuur[i]].attrs.name.v[l] = op.arg}
        IN  ret = Returns(IF hits = {} THEN None ELSE buhuur[Min(hits)])

\* C6: get_value(key, key2) with a key the template does not expose, or a
\* key2 that is no sub-field of the value of key, raises BahrError
C6_UnknownFieldIsBahrError ==
    (pc = "done" /\ op.name = "get_value") =>
        LET self == objs[op.b]
            unknownKey == op.key \notin Range(self.keys)
            unknownKey2 == /\ ~unknownKey
                           /\ op.key2 /= None
                           /\ \/ self.attrs[op.key].t /= "dict"
                              \/ op.key2 \notin DOMAIN self.attrs[op.key].v
        IN  (unknownKey \/ unknownKey2) => (ret.kind = "raise" /\ ret.exc = "BahrError")

\* C7: a2e_meter of an ameter get_ameter returned consists of the two
\* syllabic characters only
C7_SyllabicOnly == tpc \in {"a2e", "e2a"} => Range(emeter_out) \subseteq Syllabic

\* C8: when the loop of get_ameter reads a diacritic, the segment it emits
\* for the Peg is the last two characters of the buffer, and what the
\* buffer holds before them is emitted as a Cord segment just before it
\* when it is not pure whitespace, and emitted nowhere when it is
C8_PegIsLastTwo ==
    [][(tpc = "scan" /\ pos < Len(text) /\ text[pos + 1] \in re_haraka) =>
        LET buf1 == Append(scan.buf, text[pos + 1])
            before == SubSeq(buf1, 1, Len(buf1) - 2)
            n == Len(scan'.parts)
        IN  /\ Len(buf1) >= 2
            /\ scan'.parts[n] = SubSeq(buf1, Len(buf1) - 1, Len(buf1))
            /\ IF StripTruthy(before)
               THEN scan'.parts = scan.parts \o <<before, scan'.parts[n]>>
               ELSE scan'.parts = Append(scan.parts, scan'.parts[n])]_vars

\* C9: validate goes through the variants in order; within a variant it
\* goes from each foot that matched to the next, keeping what it collected;
\* a foot that fails ends the variant, and the next variant starts at its
\* first foot with the whole input and an empty list; the result is the
\* breakdown of the first variant all of whose feet match, None without one
C9_VariantsInOrder ==
    [][pc = "validate" =>
        LET meter == objs[op.b].attrs.meter.v
            var == meter[fr.vi]
            fails == fr.fi <= Len(var) /\ process(var[fr.fi], fr.text_emeter).text_foot = <<>>
            ok == Succeeding(meter, op.emeter)
        IN  /\ pc' = "validate" =>
                IF fails
                THEN /\ fr'.vi = fr.vi + 1
                     /\ fr'.fi = 1
                     /\ fr'.res = ListRes(<<>>)
                     /\ fr'.text_emeter = op.emeter
                ELSE /\ fr'.vi = fr.vi
                     /\ fr'.fi = fr.fi + 1
                     /\ Len(fr'.res.list) = Len(fr.res.list) + 1
                     /\ SubSeq(fr'.res.list, 1, Len(fr.res.list)) = fr.res.list
                     /\ fr.text_emeter = fr'.res.list[fr.fi] \o fr'.text_emeter
            /\ pc' = "done" =>
                /\ ret' = Returns(IF ok = {} THEN NoneRes
                                  ELSE VariantBreakdown(meter[Min(ok)], 1, op.emeter))
                /\ fails => fr.vi = Len(meter)
                /\ ~fails => (fr.fi = Len(var) + 1 /\ ret'.value = fr.res)]_vars

\* a validate that gave up the first variant after it had matched a foot,
\* and returned the breakdown of the second
C9_Witness ==
    /\ ValidateDone
    /\ LET meter == objs[op.b].attrs.meter.v
       IN  /\ Len(meter) >= 2
           /\ process(meter[1][1], op.emeter).text_foot /= <<>>
           /\ Min(Succeeding(meter, op.emeter) \cup {3}) = 2
           /\ ret = Returns(VariantBreakdown(meter[2], 1, op.emeter))

\* C10: the registry only grows, by one entry at its end, when a Bahr is
\* constructed; no query adds, removes or moves an entry or changes a
\* field of a template; the dictionary to_dict returns has no "meter", and
\* the template still has it
C10_RegistryAppendOnly ==
    [][/\ pc = "load" =>
            /\ Len(buhuur') = Len(buhuur) + 1
            /\ SubSeq(buhuur', 1, Len(buhuur)) = buhuur
            /\ buhuur'[Len(buhuur')] \notin Range(buhuur)
            /\ \A id \in DOMAIN objs : objs'[id] = objs[id]
       /\ pc /= "load" => (buhuur' = buhuur /\ objs' = objs)
       /\ (pc' = "done" /\ op'.name = "to_dict") =>
            /\ "meter" \notin DOMAIN ret'.value.v
            /\ DOMAIN ret'.value.v = Range(objs[op'.b].keys) \ {"meter"}
            /\ "meter" \in Range(objs'[op'.b].keys)
            /\ objs'[op'.b].attrs.meter = objs[op'.b].attrs.meter]_vars

\* to_dict has returned on the fully built registry
C10_Witness ==
    /\ pc = "done"
    /\ op.name = "to_dict"
    /\ Len(buhuur) = CatalogueSize
    /\ "meter" \notin DOMAIN ret.value.v
    /\ "meter" \in DOMAIN objs[op.b].attrs

====
